---- MODULE Spec2Model ----
(***************************************************************************)
(* Daily closing / cash reconciliation of mooco-Daily.                     *)
(*                                                                         *)
(* The record store (tables products, transactions, daily_closings,        *)
(* cash_withdrawals) is shared; every closing screen (component            *)
(* DayClosing) is a session                                                *)
(* with its own React state.  A handler is one action; each store write    *)
(* it issues has an outcome "ok", "error" (the client resolves with        *)
(* {error}) or "throw" (the awaited promise rejects).                      *)
(*                                                                         *)
(* Strings typed by the user are tuples: '' is <<>> and the decimal string *)
(* of n is <<n>>.  A nullable value is <<>> (null) or <<v>>.               *)
(***************************************************************************)
EXTENDS Integers, Sequences, FiniteSets, TLC

VARIABLES today, amountScale, inflight, transactions, nextTxnId, history,
          sale_prices, products, daily_closings, nextId, cash_withdrawals,
          session, loads

vars == <<today, amountScale, inflight, transactions, nextTxnId, history,
          sale_prices, products, daily_closings, nextId, cash_withdrawals,
          session, loads>>

\* Money is held in whole units of 1/amountScale rupee (amountScale = 1:
\* whole rupees), so that the decimal string typed for an amount x is
\* <<x * amountScale>>; quantities of stock are whole numbers.  inflight
\* holds, per session, the handleSave and the handleLock that are awaiting
\* a store write, each with the render it was started from.
NoRequest == [save |-> <<>>, lock |-> <<>>]

\* The ledger screen on display (StockIn, or CashFlow in a mode) with its
\* history list, and the next id of the transactions table.
ledgerScreens == <<nextTxnId, history>>

\* No ledger screen is mounted.
NoLedgerScreen == [screen |-> "NONE", rows |-> <<>>]

store == <<products, daily_closings, nextId, cash_withdrawals>>

----
\* Bounds of the model.
MaxStock == 1
MaxCash == 1
MaxClosingId == 2
MaxWithdrawals == 1
MaxLoads == 2

Products == {1, 2}
Sessions == {"A", "B"}

\* The day-1 scenario: product A, its price and stock, the
\* seeded opening cash and the counts entered.
Day1 ==
  [ product |-> 1, price |-> 10, opening |-> 20, received |-> 5,
    available |-> 25,
    seed |-> 500, remaining |-> 5, cashCounted |-> 700 ]

Quantities == 0..MaxStock
Amounts == 1..MaxCash

None == <<>>
Some(x) == <<x>>

\* '' or the decimal string of a number.
EmptyString == <<>>
NumToString(n) == <<n>>

\* parseInt(str) || 0 and parseFloat(str) || 0 on '' or a decimal string.
ParseOrZero(str) == IF str = EmptyString THEN 0 ELSE str[1]

WriteOutcomes == {"ok", "error", "throw"}

\* products.sale_price (products holds the current_opening_stock column).
sale_price(p) == sale_prices[p]

RECURSIVE SumOver(_, _)
SumOver(f, S) ==
  IF S = {} THEN 0
  ELSE LET x == CHOOSE y \in S : TRUE IN f[x] + SumOver(f, S \ {x})

\* reduce((sum, x) => sum + ..., 0) over an array.
Reduce(f) == SumOver(f, DOMAIN f)

TransactionTypes == {"STOCK_IN", "EXPENSE", "INCOME"}

\* Rows of the transactions table; a null quantity or amount reads as 0.
StockInRow(id, date, p, quantity) ==
  [ id |-> id, type |-> "STOCK_IN", date_str |-> date, product_id |-> Some(p),
    quantity |-> quantity, amount |-> 0, is_return |-> FALSE,
    return_of |-> None ]

MoneyRow(id, type, date, amount) ==
  [ id |-> id, type |-> type, date_str |-> date, product_id |-> None,
    quantity |-> 0, amount |-> amount, is_return |-> FALSE,
    return_of |-> None ]

\* fetchTodayStockIn / fetchTodayExpenses / fetchTodayIncome.
FetchTodayTransactions(type, includeReturns) ==
  SelectSeq(transactions,
            LAMBDA t : /\ t.type = type
                       /\ t.date_str = today
                       /\ (includeReturns \/ ~t.is_return))

\* productStockIn of loadData: today's stock-in of product p.
StockInToday(p) ==
  LET stockInData == FetchTodayTransactions("STOCK_IN", FALSE)
  IN Reduce([i \in DOMAIN stockInData |->
               IF stockInData[i].product_id = Some(p)
                  /\ ~stockInData[i].is_return
               THEN stockInData[i].quantity ELSE 0])

\* totalExpenses and totalIncome of loadData.
TotalAmount(type) ==
  LET rows == FetchTodayTransactions(type, FALSE)
  IN Reduce([i \in DOMAIN rows |-> rows[i].amount])

----
\* React state of a freshly mounted DayClosing component.
InitialSession ==
  [ loading           |-> TRUE,
    stockItems        |-> <<>>,
    openingCash       |-> 0,
    openingCashLocked |-> FALSE,
    isFirstTimeUser   |-> FALSE,
    cashInDrawer      |-> EmptyString,
    withdrawals       |-> <<>>,
    existingClosing   |-> None,
    isLocked          |-> FALSE,
    lastSaved         |-> None,
    todayExpenses     |-> 0,
    todayIncome       |-> 0,
    nextDayOpeningSaved |-> FALSE ]

\* The final record a previous business day may have left behind.
PreviousDayFinal(nextDay) ==
  [ id                    |-> 1,
    date_str              |-> 1,
    closing_type          |-> "final",
    total_revenue         |-> 0,
    cash_received         |-> 0,
    total_withdrawals     |-> 0,
    report_json           |-> None,
    next_day_opening_cash |-> nextDay ]

\* Today's ledger of the small catalogue: one unit of product 1 received.
OneStockIn == <<StockInRow(1, 2, 1, 1)>>

\* A seeded catalogue (current_opening_stock 0), and either a first day of
\* use or a previous day locked with or without a handoff.
InitStore(catalogue, ledger) ==
  /\ today = 2
  /\ amountScale = 1
  /\ inflight = [s \in Sessions |-> NoRequest]
  /\ transactions = ledger
  /\ nextTxnId = Len(ledger) + 1
  /\ history = NoLedgerScreen
  /\ sale_prices = [p \in catalogue |-> p]
  /\ products = [p \in catalogue |-> 0]
  /\ \/ daily_closings = {}
     \/ \E n \in {None, Some(MaxCash)} :
          daily_closings = {PreviousDayFinal(n)}
  /\ nextId = Cardinality(daily_closings) + 1
  /\ cash_withdrawals = <<>>

Init ==
  /\ InitStore(Products, OneStockIn)
  /\ session = [s \in Sessions |-> InitialSession]
  /\ loads = 0

\* One device over a one-product catalogue, on a day without ledger entries.
InitAll ==
  /\ InitStore({1}, <<>>)
  /\ session = [s \in Sessions |-> InitialSession]
  /\ loads = 0

\* Two devices over a one-product catalogue.
InitMulti ==
  /\ InitStore({1}, OneStockIn)
  /\ daily_closings = {}
  /\ session = [s \in Sessions |-> InitialSession]
  /\ loads = 0

----
\* fetchTodayClosings: today's records, newest first; [0] is the latest.
TodayClosings == {c \in daily_closings : c.date_str = today}

LatestOf(rows, date) ==
  LET ofDate == {c \in rows : c.date_str = date}
  IN IF ofDate = {} THEN None
     ELSE Some(CHOOSE c \in ofDate : \A d \in ofDate : d.id <= c.id)

LatestClosing == LatestOf(daily_closings, today)

\* The most recent final record of an earlier date (limit(1).single()).
PreviousDayClosing ==
  LET prior == {c \in daily_closings :
                  c.closing_type = "final" /\ c.date_str < today}
  IN IF prior = {} THEN None
     ELSE Some(CHOOSE c \in prior :
                 \A d \in prior : d.date_str < c.date_str
                                  \/ (d.date_str = c.date_str /\ d.id <= c.id))

\* savedStock built from report_json.closingStock.
SavedStock(closing) ==
  IF closing.report_json = None THEN <<>>
  ELSE LET cs == closing.report_json[1].closingStock
       IN [p \in {cs[i].productId : i \in DOMAIN cs} |->
             (CHOOSE i \in DOMAIN cs :
                cs[i].productId = p
                /\ \A j \in DOMAIN cs : cs[j].productId = p => j <= i)
        ]

LastSavedStock(closing, p) ==
  LET cs == closing.report_json[1].closingStock
  IN cs[SavedStock(closing)[p]].newOpeningStock

BuildStockItems(latest) ==
  [p \in DOMAIN products |->
     LET opening == products[p]
         available == opening + StockInToday(p)
         hasSaved == latest # None /\ p \in DOMAIN SavedStock(latest[1])
     IN [ opening   |-> opening,
          stockIn   |-> StockInToday(p),
          available |-> available,
          remaining |-> IF hasSaved
                        THEN NumToString(LastSavedStock(latest[1], p))
                        ELSE EmptyString,
          sold      |-> IF hasSaved
                        THEN available - LastSavedStock(latest[1], p)
                        ELSE 0 ]]

\* (Re)mounting the closing screen resets its React state.
Mount(s) ==
  /\ ~session[s].loading
  /\ session' = [session EXCEPT ![s] = InitialSession]
  /\ UNCHANGED <<today, amountScale, inflight, transactions, ledgerScreens, sale_prices, store, loads>>

\* The fields of a DailyClosing row the component reads from existingClosing.
Snapshot(row) ==
  [ id                |-> row.id,
    total_revenue     |-> row.total_revenue,
    cash_received     |-> row.cash_received,
    total_withdrawals |-> row.total_withdrawals ]

LoadedSession(prevReadOk) ==
  LET latest == LatestClosing
      prev == IF prevReadOk THEN PreviousDayClosing ELSE None
      handed == prev # None /\ prev[1].next_day_opening_cash # None
  IN [ loading           |-> FALSE,
       stockItems        |-> BuildStockItems(latest),
       openingCash       |-> IF handed THEN prev[1].next_day_opening_cash[1]
                             ELSE 0,
       openingCashLocked |-> handed,
       isFirstTimeUser   |-> ~handed,
       cashInDrawer      |-> IF latest = None THEN EmptyString
                             ELSE NumToString(latest[1].cash_received),
       withdrawals       |-> cash_withdrawals,
       existingClosing   |-> IF latest = None THEN None
                             ELSE Some(Snapshot(latest[1])),
       isLocked          |-> latest # None
                             /\ latest[1].closing_type = "final",
       lastSaved         |-> IF latest = None THEN None ELSE Some("time"),
       todayExpenses     |-> TotalAmount("EXPENSE"),
       todayIncome       |-> TotalAmount("INCOME"),
       nextDayOpeningSaved |-> latest # None
                               /\ latest[1].next_day_opening_cash # None ]

\* loadData: all reads succeed (the previous-day read may still fail).
LoadData(s, prevReadOk) ==
  /\ session[s].loading
  /\ loads < MaxLoads
  /\ loads' = loads + 1
  /\ session' = [session EXCEPT ![s] = LoadedSession(prevReadOk)]
  /\ UNCHANGED <<today, amountScale, inflight, transactions, ledgerScreens, sale_prices, store>>

\* loadData: one of the reads of Promise.all throws.
LoadDataFail(s) ==
  /\ session[s].loading
  /\ loads < MaxLoads
  /\ loads' = loads + 1
  /\ session' = [session EXCEPT ![s].loading = FALSE]
  /\ UNCHANGED <<today, amountScale, inflight, transactions, ledgerScreens, sale_prices, store>>

----
\* updateRemaining(productId, value): value is '' or a typed count.
UpdateRemaining(s, p, value) ==
  /\ ~session[s].loading
  /\ ~session[s].isLocked
  /\ p \in DOMAIN session[s].stockItems
  /\ LET item == session[s].stockItems[p]
         numValue == IF value = EmptyString THEN EmptyString
                     ELSE NumToString(IF ParseOrZero(value) > 0
                                      THEN ParseOrZero(value) ELSE 0)
         remaining == ParseOrZero(numValue)
         cappedRemaining == IF remaining < item.available THEN remaining
                            ELSE item.available
         sold == item.available - cappedRemaining
     IN session' = [session EXCEPT ![s].stockItems[p] =
          [item EXCEPT !.remaining = IF numValue = EmptyString THEN EmptyString
                                     ELSE NumToString(cappedRemaining),
                       !.sold = IF numValue = EmptyString THEN 0 ELSE sold]]
  /\ UNCHANGED <<today, amountScale, inflight, transactions, ledgerScreens, sale_prices, store, loads>>

\* onChange of the cash-in-drawer input.
SetCashInDrawer(s, value) ==
  /\ ~session[s].loading
  /\ ~session[s].isLocked
  /\ session' = [session EXCEPT ![s].cashInDrawer = value]
  /\ UNCHANGED <<today, amountScale, inflight, transactions, ledgerScreens, sale_prices, store, loads>>

\* isNaN(parseFloat(value)) || parseFloat(value) < 0 for '' or a decimal
\* string.
InvalidAmount(value) == value = EmptyString \/ value[1] < 0

\* handleSaveFirstTimeOpening without the amount < 0 test.
HandleSaveFirstTimeOpening_AnyNumber(s, value) ==
  /\ ~session[s].loading
  /\ ~session[s].isLocked
  /\ session[s].isFirstTimeUser /\ ~session[s].openingCashLocked
  /\ session' = IF value = EmptyString THEN session
                ELSE [session EXCEPT ![s].openingCash = ParseOrZero(value),
                                     ![s].openingCashLocked = TRUE,
                                     ![s].isFirstTimeUser = FALSE]
  /\ UNCHANGED <<today, amountScale, inflight, transactions, ledgerScreens, sale_prices, store, loads>>

\* handleSaveFirstTimeOpening on the typed value (the panel is shown only
\* while isFirstTimeUser && !openingCashLocked).
HandleSaveFirstTimeOpening(s, value) ==
  /\ ~session[s].loading
  /\ ~session[s].isLocked
  /\ session[s].isFirstTimeUser /\ ~session[s].openingCashLocked
  /\ session' = IF InvalidAmount(value) THEN session
                ELSE [session EXCEPT ![s].openingCash = ParseOrZero(value),
                                     ![s].openingCashLocked = TRUE,
                                     ![s].isFirstTimeUser = FALSE]
  /\ UNCHANGED <<today, amountScale, inflight, transactions, ledgerScreens, sale_prices, store, loads>>

\* handleWithdraw: insert the withdrawal, then re-read today's list.
HandleWithdraw(s, amount, insertOk, refreshOk) ==
  /\ ~session[s].loading
  /\ ~session[s].isLocked
  /\ amount > 0
  /\ Len(cash_withdrawals) < MaxWithdrawals
  /\ cash_withdrawals' = IF insertOk THEN Append(cash_withdrawals, amount)
                         ELSE cash_withdrawals
  /\ session' = IF insertOk /\ refreshOk
                THEN [session EXCEPT ![s].withdrawals = cash_withdrawals']
                ELSE session
  /\ UNCHANGED <<today, amountScale, inflight, transactions, ledgerScreens, sale_prices, products, daily_closings, nextId, loads>>

\* totalWithdrawals of a session state ss.
totalWithdrawals(ss) == Reduce(ss.withdrawals)

\* calculations.sales that prices what was counted, not what was sold.
salesFromStock_CountedStock(ss) ==
  LET items == ss.stockItems
  IN Reduce([p \in DOMAIN items |->
       IF items[p].remaining # EmptyString
       THEN ParseOrZero(items[p].remaining) * sale_price(p)
       ELSE 0])

\* calculations.sales that takes a product without a count as uncounted
\* stock of 0, i.e. as sold out.
salesFromStock_BlankIsZero(ss) ==
  LET items == ss.stockItems
  IN Reduce([p \in DOMAIN items |->
       (items[p].available - ParseOrZero(items[p].remaining))
       * sale_price(p)])

\* calculations.sales
salesFromStock(ss) ==
  LET items == ss.stockItems
  IN Reduce([p \in DOMAIN items |->
       IF items[p].remaining # EmptyString
       THEN (items[p].available - ParseOrZero(items[p].remaining))
            * sale_price(p)
       ELSE 0])

\* calculations with other income taken out of the expected cash.
calculations_IncomeSubtracted(ss) ==
  LET expectedCash == ss.openingCash + salesFromStock(ss) - ss.todayIncome
                      - ss.todayExpenses - totalWithdrawals(ss)
      actualCash == ParseOrZero(ss.cashInDrawer)
      difference == actualCash - expectedCash
  IN [ sales        |-> salesFromStock(ss),
       openingCash  |-> ss.openingCash,
       expectedCash |-> expectedCash,
       actualCash   |-> actualCash,
       difference   |-> difference,
       hasLoss      |-> difference < 0,
       hasExtra     |-> difference > 0,
       isMatch      |-> (IF difference < 0 THEN -difference
                         ELSE difference) < 1 * amountScale ]

\* calculations: expected cash, counted cash and their difference.
calculations(ss) ==
  LET expectedCash == ss.openingCash + salesFromStock(ss) + ss.todayIncome
                      - ss.todayExpenses - totalWithdrawals(ss)
      actualCash == ParseOrZero(ss.cashInDrawer)
      difference == actualCash - expectedCash
  IN [ sales        |-> salesFromStock(ss),
       openingCash  |-> ss.openingCash,
       expectedCash |-> expectedCash,
       actualCash   |-> actualCash,
       difference   |-> difference,
       hasLoss      |-> difference < 0,
       hasExtra     |-> difference > 0,
       isMatch      |-> (IF difference < 0 THEN -difference
                         ELSE difference) < 1 * amountScale ]

canSave(ss) ==
  LET items == ss.stockItems
      hasAnyStock == \E p \in DOMAIN items : items[p].remaining # EmptyString
      hasCash == ss.cashInDrawer # EmptyString
  IN hasAnyStock \/ hasCash

\* canLock with "some" in place of "every".
canLock_SomeStockFilled(ss) ==
  LET items == ss.stockItems
      someStockFilled == \E p \in DOMAIN items : items[p].remaining # EmptyString
      hasCash == ss.cashInDrawer # EmptyString
      hasOpeningCash == ss.openingCashLocked \/ ~ss.isFirstTimeUser
  IN someStockFilled /\ hasCash /\ hasOpeningCash

canLock(ss) ==
  LET items == ss.stockItems
      allStockFilled == \A p \in DOMAIN items : items[p].remaining # EmptyString
      hasCash == ss.cashInDrawer # EmptyString
      hasOpeningCash == ss.openingCashLocked \/ ~ss.isFirstTimeUser
  IN allStockFilled /\ hasCash /\ hasOpeningCash

\* The row handleSave / handleLock sends to daily_closings.
ClosingData(ss, date, type, closingStock) ==
  [ date_str          |-> date,
    total_revenue     |-> salesFromStock(ss),
    cash_received     |-> ParseOrZero(ss.cashInDrawer),
    total_withdrawals |-> totalWithdrawals(ss),
    closing_type      |-> type,
    report_json       |-> Some([closingStock |-> closingStock]) ]

\* .update(closingData).eq('id', id) on the rows of daily_closings.
UpdateClosing(rows, id, data) ==
  { IF c.id = id
    THEN [c EXCEPT !.date_str = data.date_str,
                   !.total_revenue = data.total_revenue,
                   !.cash_received = data.cash_received,
                   !.total_withdrawals = data.total_withdrawals,
                   !.closing_type = data.closing_type,
                   !.report_json = data.report_json]
    ELSE c : c \in rows }

\* .insert([closingData]).select().single(): the row as stored under id.
InsertedClosing(data, id) ==
  [ id                    |-> id,
    date_str              |-> data.date_str,
    closing_type          |-> data.closing_type,
    total_revenue         |-> data.total_revenue,
    cash_received         |-> data.cash_received,
    total_withdrawals     |-> data.total_withdrawals,
    report_json           |-> data.report_json,
    next_day_opening_cash |-> None ]

SaveClosingStock(ss) ==
  LET items == ss.stockItems
  IN [p \in DOMAIN items |->
        [ productId |-> p,
          newOpeningStock |-> IF items[p].remaining = EmptyString
                              THEN items[p].available
                              ELSE ParseOrZero(items[p].remaining) ]]

\* The closing write without the update branch.
WriteClosing_AlwaysInserts(ss, rows, id, data) ==
  rows \cup {InsertedClosing(data, id)}

\* The closing write of handleSave / handleLock when it succeeds: update of
\* the known row, else insert of a new one under the next id.
WriteClosing(ss, rows, id, data) ==
  IF ss.existingClosing # None
  THEN UpdateClosing(rows, ss.existingClosing[1].id, data)
  ELSE rows \cup {InsertedClosing(data, id)}

\* handleSave that also rolls the product stock forward.
HandleSave_RollsStock(s, outcome) ==
  /\ ~session[s].loading
  /\ canSave(session[s]) /\ ~session[s].isLocked
  /\ LET ss == session[s]
         data == ClosingData(ss, today, "partial", SaveClosingStock(ss))
         insert == ss.existingClosing = None
     IN /\ insert => nextId <= MaxClosingId
        /\ products' = [p \in DOMAIN products |->
                          IF p \in DOMAIN ss.stockItems
                          THEN SaveClosingStock(ss)[p].newOpeningStock
                          ELSE products[p]]
        /\ daily_closings' = IF outcome = "ok"
                             THEN WriteClosing(ss, daily_closings, nextId, data)
                             ELSE daily_closings
        /\ nextId' = IF insert /\ outcome = "ok" THEN nextId + 1 ELSE nextId
        /\ session' =
             IF outcome # "ok" THEN session
             ELSE IF insert
             THEN [session EXCEPT
                     ![s].existingClosing =
                         Some(Snapshot(InsertedClosing(data, nextId))),
                     ![s].lastSaved = Some("time")]
             ELSE [session EXCEPT ![s].lastSaved = Some("time")]
  /\ UNCHANGED <<today, amountScale, inflight, transactions, ledgerScreens, sale_prices, cash_withdrawals, loads>>

\* handleSave that does not inspect the result of its write, as handleLock.
HandleSave_IgnoresError(s, outcome) ==
  /\ ~session[s].loading
  /\ canSave(session[s]) /\ ~session[s].isLocked
  /\ LET ss == session[s]
         data == ClosingData(ss, today, "partial", SaveClosingStock(ss))
         insert == ss.existingClosing = None
     IN /\ insert => nextId <= MaxClosingId
        /\ daily_closings' = IF outcome = "ok"
                             THEN WriteClosing(ss, daily_closings, nextId, data)
                             ELSE daily_closings
        /\ nextId' = IF insert /\ outcome = "ok" THEN nextId + 1 ELSE nextId
        /\ session' =
             IF outcome = "throw" THEN session
             ELSE IF insert
             THEN [session EXCEPT
                     ![s].existingClosing =
                         IF outcome = "ok"
                         THEN Some(Snapshot(InsertedClosing(data, nextId)))
                         ELSE None,
                     ![s].lastSaved = Some("time")]
             ELSE [session EXCEPT ![s].lastSaved = Some("time")]
  /\ UNCHANGED <<today, amountScale, inflight, transactions, ledgerScreens, sale_prices, products, cash_withdrawals, loads>>

\* handleSave: writes the partial record; does not touch products.
HandleSave(s, outcome) ==
  /\ ~session[s].loading
  /\ canSave(session[s]) /\ ~session[s].isLocked
  /\ LET ss == session[s]
         data == ClosingData(ss, today, "partial", SaveClosingStock(ss))
         insert == ss.existingClosing = None
     IN /\ insert => nextId <= MaxClosingId
        /\ daily_closings' = IF outcome = "ok"
                             THEN WriteClosing(ss, daily_closings, nextId, data)
                             ELSE daily_closings
        /\ nextId' = IF insert /\ outcome = "ok" THEN nextId + 1 ELSE nextId
        /\ session' =
             IF outcome # "ok" THEN session
             ELSE IF insert
             THEN [session EXCEPT
                     ![s].existingClosing =
                         Some(Snapshot(InsertedClosing(data, nextId))),
                     ![s].lastSaved = Some("time")]
             ELSE [session EXCEPT ![s].lastSaved = Some("time")]
  /\ UNCHANGED <<today, amountScale, inflight, transactions, ledgerScreens, sale_prices, products, cash_withdrawals, loads>>

\* Largest stock a lock rolls forward in the model.
StockCeiling(p) ==
  IF sale_price(p) = Day1.price THEN Day1.available ELSE MaxStock

LockClosingStock(ss) ==
  LET items == ss.stockItems
  IN [p \in DOMAIN items |->
        [ productId |-> p,
          newOpeningStock |-> ParseOrZero(items[p].remaining) ]]

\* Index of the first write of a handler whose promise rejects; the writes
\* are the product updates in list order followed by the closing write.
FirstThrow(outcomes) ==
  IF \E i \in DOMAIN outcomes : outcomes[i] = "throw"
  THEN CHOOSE i \in DOMAIN outcomes :
         outcomes[i] = "throw" /\ \A j \in DOMAIN outcomes :
                                    outcomes[j] = "throw" => i <= j
  ELSE Len(outcomes) + 1

\* for (const item of closingStock) await products.update(...).eq('id', ...)
LockProductWrites(closingStock, outcomes) ==
  [p \in DOMAIN products |->
     IF \E i \in DOMAIN closingStock :
          closingStock[i].productId = p /\ outcomes[i] = "ok"
          /\ i < FirstThrow(outcomes)
     THEN closingStock[CHOOSE i \in DOMAIN closingStock :
                         closingStock[i].productId = p].newOpeningStock
     ELSE products[p]]

\* handleLock: rolls product stock forward, writes the final record.  The
\* results of its writes are not inspected.
HandleLock(s, outcomes) ==
  /\ ~session[s].loading
  /\ canLock(session[s]) /\ ~session[s].isLocked
  /\ LET ss == session[s]
         closingStock == LockClosingStock(ss)
         n == Len(closingStock)
         data == ClosingData(ss, today, "final", closingStock)
         insert == ss.existingClosing = None
         thrown == FirstThrow(outcomes) <= n + 1
         closingWritten == ~thrown /\ outcomes[n + 1] = "ok"
     IN /\ DOMAIN outcomes = 1..(n + 1)
        /\ \A i \in DOMAIN closingStock :
             closingStock[i].newOpeningStock
               <= StockCeiling(closingStock[i].productId)
        /\ insert => nextId <= MaxClosingId
        /\ products' = LockProductWrites(closingStock, outcomes)
        /\ daily_closings' = IF closingWritten
                             THEN WriteClosing(ss, daily_closings, nextId, data)
                             ELSE daily_closings
        /\ nextId' = IF insert /\ closingWritten THEN nextId + 1 ELSE nextId
        /\ session' =
             IF thrown THEN session
             ELSE IF insert
             THEN [session EXCEPT
                     ![s].existingClosing =
                         IF closingWritten
                         THEN Some(Snapshot(InsertedClosing(data, nextId)))
                         ELSE None,
                     ![s].isLocked = TRUE,
                     ![s].lastSaved = Some("time")]
             ELSE [session EXCEPT ![s].isLocked = TRUE,
                                  ![s].lastSaved = Some("time")]
  /\ UNCHANGED <<today, amountScale, inflight, transactions, ledgerScreens, sale_prices, cash_withdrawals, loads>>

\* handleSaveNextDayOpening without setNextDayOpeningSaved(true).
HandleSaveNextDayOpening_StaysOpen(s, value, outcome) ==
  /\ ~session[s].loading
  /\ session[s].isLocked
  /\ ~session[s].nextDayOpeningSaved
  /\ LET ss == session[s]
         written == /\ ~InvalidAmount(value)
                    /\ ss.existingClosing # None
                    /\ outcome = "ok"
     IN /\ daily_closings' =
             IF written
             THEN { IF c.id = ss.existingClosing[1].id
                    THEN [c EXCEPT !.next_day_opening_cash =
                                      Some(ParseOrZero(value))]
                    ELSE c : c \in daily_closings }
             ELSE daily_closings
        /\ session' = IF written
                      THEN session
                      ELSE session
  /\ UNCHANGED <<today, amountScale, inflight, transactions, ledgerScreens, sale_prices, products, nextId, cash_withdrawals, loads>>

\* handleSaveNextDayOpening on the typed value; the input is rendered in the
\* locked view while nextDayOpeningSaved is false.
HandleSaveNextDayOpening(s, value, outcome) ==
  /\ ~session[s].loading
  /\ session[s].isLocked
  /\ ~session[s].nextDayOpeningSaved
  /\ LET ss == session[s]
         written == /\ ~InvalidAmount(value)
                    /\ ss.existingClosing # None
                    /\ outcome = "ok"
     IN /\ daily_closings' =
             IF written
             THEN { IF c.id = ss.existingClosing[1].id
                    THEN [c EXCEPT !.next_day_opening_cash =
                                      Some(ParseOrZero(value))]
                    ELSE c : c \in daily_closings }
             ELSE daily_closings
        /\ session' = IF written
                      THEN [session EXCEPT ![s].nextDayOpeningSaved = TRUE]
                      ELSE session
  /\ UNCHANGED <<today, amountScale, inflight, transactions, ledgerScreens, sale_prices, products, nextId, cash_withdrawals, loads>>

TypedCounts == {EmptyString} \cup {NumToString(q) : q \in Quantities}
\* What can be typed into a remaining input: '', a count, or a negative
\* number.
TypedRemaining == TypedCounts \cup {NumToString(-1)}
TypedCash == {EmptyString} \cup {NumToString(a) : a \in Amounts}
TypedAmounts == {EmptyString, NumToString(-1)}
                \cup {NumToString(a) : a \in 0..MaxCash}
LockOutcomes == UNION {[1..n -> WriteOutcomes] : n \in 1..(Cardinality(Products) + 1)}

\* A step of the closing screen s other than a store write.
LocalStep(s) ==
  \/ Mount(s)
  \/ \E ok \in BOOLEAN : LoadData(s, ok)
  \/ LoadDataFail(s)
  \/ \E p \in Products, v \in TypedRemaining : UpdateRemaining(s, p, v)
  \/ \E v \in TypedCash : SetCashInDrawer(s, v)
  \/ \E v \in TypedAmounts : HandleSaveFirstTimeOpening(s, v)

AllOk(n) == [i \in 1..n |-> "ok"]

\* A single closing session per business day.
Next ==
  \/ LocalStep("A")
  \/ \E a \in Amounts, i, r \in BOOLEAN : HandleWithdraw("A", a, i, r)
  \/ \E o \in WriteOutcomes : HandleSave("A", o)
  \/ \E o \in LockOutcomes : HandleLock("A", o)
  \/ \E v \in TypedAmounts, o \in WriteOutcomes :
       HandleSaveNextDayOpening("A", v, o)

Spec == Init /\ [][Next]_vars

----
\* isFinalClosingDoneToday: maybeSingle() yields an error for several rows,
\* and an error is answered with false.
isFinalClosingDoneToday(readOk) ==
  /\ readOk
  /\ Cardinality({c \in TodayClosings : c.closing_type = "final"}) = 1

\* services/supabase performDailyClosing(closingData, totalRevenue,
\* cashReceived, options): guard read, stock roll-over for a final closing,
\* then the insert of the closing row.
PerformDailyClosing(closingData, totalRevenue, cashReceived, totalWd, closingType, readOk, outcomes) ==
  LET n == Len(closingData)
      thrown == FirstThrow(outcomes) <= n + 1
      inserted == ~thrown /\ outcomes[n + 1] = "ok"
      stockReport == {i \in DOMAIN closingData :
                        closingData[i].newOpeningStock > 0
                        \/ closingType = "final"}
      row == [ date_str          |-> today,
               total_revenue     |-> totalRevenue,
               cash_received     |-> cashReceived,
               total_withdrawals |-> totalWd,
               closing_type      |-> closingType,
               report_json       |-> IF stockReport # {}
                                     THEN Some([closingStock |-> closingData])
                                     ELSE None ]
  IN IF isFinalClosingDoneToday(readOk)
     THEN UNCHANGED <<products, daily_closings, nextId>>
     ELSE /\ DOMAIN outcomes = 1..(n + 1)
          /\ nextId <= MaxClosingId
          /\ products' = IF closingType = "final"
                         THEN LockProductWrites(closingData, outcomes)
                         ELSE products
          /\ daily_closings' = IF inserted
                               THEN daily_closings \cup {InsertedClosing(row, nextId)}
                               ELSE daily_closings
          /\ nextId' = IF inserted THEN nextId + 1 ELSE nextId

\* handleSubmit asking for a final closing, which rolls the stock.
LegacyHandleSubmit_Final(closingInput, readOk, outcomes) ==
  /\ DOMAIN closingInput = DOMAIN products
  /\ ~ \E p \in DOMAIN closingInput : closingInput[p] = EmptyString
  /\ LET closing == [p \in DOMAIN products |-> ParseOrZero(closingInput[p])]
         closingData == [p \in DOMAIN products |->
                           [productId |-> p, newOpeningStock |-> closing[p]]]
     IN PerformDailyClosing(closingData, 0, 0, 0, "final", readOk, outcomes)
  /\ UNCHANGED <<today, amountScale, inflight, transactions, ledgerScreens, sale_prices, cash_withdrawals, session, loads>>

\* The earlier closing screen: handleSubmit over rows loaded from the
\* store, every closingInput typed by the user.
LegacyHandleSubmit(closingInput, readOk, outcomes) ==
  /\ DOMAIN closingInput = DOMAIN products
  /\ ~ \E p \in DOMAIN closingInput : closingInput[p] = EmptyString
  /\ LET totalAvailable == [p \in DOMAIN products |->
                              products[p] + StockInToday(p)]
         closing == [p \in DOMAIN products |-> ParseOrZero(closingInput[p])]
         totalRev == Reduce([p \in DOMAIN products |->
                       (IF totalAvailable[p] > closing[p]
                        THEN totalAvailable[p] - closing[p] ELSE 0)
                       * sale_price(p)])
         closingData == [p \in DOMAIN products |->
                           [productId |-> p, newOpeningStock |-> closing[p]]]
     IN PerformDailyClosing(closingData, totalRev, 0, 0, "partial",
                            readOk, outcomes)
  /\ UNCHANGED <<today, amountScale, inflight, transactions, ledgerScreens, sale_prices, cash_withdrawals, session, loads>>

----
\* Settings: handleSaveStockAdjustments writes every changed stock value in
\* turn and stops at the first failed write.
HandleSaveStockAdjustments(stockAdjustments, written) ==
  /\ DOMAIN stockAdjustments = DOMAIN products
  /\ LET changes == {p \in DOMAIN products :
                       ParseOrZero(stockAdjustments[p]) # products[p]}
     IN /\ changes # {}
        /\ written \subseteq changes
        /\ \A p \in written, q \in changes : q < p => q \in written
        /\ products' = [p \in DOMAIN products |->
                          IF p \in written
                          THEN ParseOrZero(stockAdjustments[p])
                          ELSE products[p]]
  /\ UNCHANGED <<today, amountScale, inflight, transactions, ledgerScreens, sale_prices, daily_closings, nextId, cash_withdrawals, session,
                 loads>>

\* Settings: resetProductStock.
ResetProductStock(ok) ==
  /\ products' = IF ok THEN [p \in DOMAIN products |-> 0] ELSE products
  /\ UNCHANGED <<today, amountScale, inflight, transactions, ledgerScreens, sale_prices, daily_closings, nextId, cash_withdrawals, session,
                 loads>>

DeleteDataTypes ==
  {"transactions", "closings", "stock_in", "expenses", "income",
   "withdrawals", "all"}

\* Settings: deleteDataByType for the tables of the model; 'all' issues its
\* deletes and the stock reset independently of each other.
DeleteDataByType(type, transactionsOk, closingsOk, withdrawalsOk, productsOk) ==
  /\ type \in DeleteDataTypes
  /\ transactions' =
       IF ~transactionsOk THEN transactions
       ELSE IF type \in {"transactions", "all"} THEN <<>>
       ELSE IF type = "stock_in"
       THEN SelectSeq(transactions, LAMBDA t : t.type # "STOCK_IN")
       ELSE IF type = "expenses"
       THEN SelectSeq(transactions, LAMBDA t : t.type # "EXPENSE")
       ELSE IF type = "income"
       THEN SelectSeq(transactions, LAMBDA t : t.type # "INCOME")
       ELSE transactions
  /\ daily_closings' = IF type \in {"closings", "all"} /\ closingsOk
                       THEN {} ELSE daily_closings
  /\ cash_withdrawals' = IF type \in {"withdrawals", "all"} /\ withdrawalsOk
                         THEN <<>> ELSE cash_withdrawals
  /\ products' = IF type = "all" /\ productsOk
                 THEN [p \in DOMAIN products |-> 0] ELSE products
  /\ UNCHANGED <<today, amountScale, inflight, ledgerScreens, sale_prices, nextId, session, loads>>

\* The closing session together with the other screens that write the store.
NextAll ==
  \/ LocalStep("A")
  \/ \E o \in WriteOutcomes : HandleSave("A", o)
  \/ \E o \in LockOutcomes : HandleLock("A", o)
  \/ \E in \in [DOMAIN products -> TypedCounts], r \in BOOLEAN, w \in WriteOutcomes :
       LegacyHandleSubmit(in, r, Append(AllOk(Cardinality(DOMAIN products)), w))
  \/ \E adj \in [DOMAIN products -> TypedCounts], w \in SUBSET DOMAIN products :
       HandleSaveStockAdjustments(adj, w)
  \/ \E ok \in BOOLEAN : ResetProductStock(ok)
  \/ \E t \in DeleteDataTypes \ {"all"}, ok \in BOOLEAN :
       DeleteDataByType(t, ok, ok, ok, ok)
  \/ \E x, c, w, p \in BOOLEAN : DeleteDataByType("all", x, c, w, p)

SpecAll == InitAll /\ [][NextAll]_vars

\* Two devices with the closing screen open, over a store whose writes
\* succeed.
NextMulti ==
  \/ \E s \in Sessions : LocalStep(s)
  \/ \E s \in Sessions : HandleSave(s, "ok")
  \/ \E s \in Sessions, n \in 1..(Cardinality(Products) + 1) :
       HandleLock(s, AllOk(n))
  \/ \E s \in Sessions, v \in TypedAmounts :
       HandleSaveNextDayOpening(s, v, "ok")

SpecMulti == InitMulti /\ [][NextMulti]_vars

----
\* A day over the one-product catalogue of the day-1 scenario: product A
\* with opening stock 20 or 45 and 5 units received, with or without an
\* expense of 150, an income of 200, a withdrawal of 100 and a previous day
\* that handed over 1000.
InitDay ==
  /\ today = 2
  /\ amountScale = 1
  /\ inflight = [s \in Sessions |-> NoRequest]
  /\ \E opening \in {Day1.opening, 45} :
       products = [p \in {Day1.product} |-> opening]
  /\ sale_prices = [p \in {Day1.product} |-> Day1.price]
  /\ \E expense \in SUBSET {MoneyRow(2, "EXPENSE", 2, 150)},
        income \in SUBSET {MoneyRow(3, "INCOME", 2, 200)} :
       transactions =
         <<StockInRow(1, 2, Day1.product, Day1.received)>>
         \o (IF expense = {} THEN <<>> ELSE <<MoneyRow(2, "EXPENSE", 2, 150)>>)
         \o (IF income = {} THEN <<>> ELSE <<MoneyRow(3, "INCOME", 2, 200)>>)
  /\ nextTxnId = 4
  /\ history = NoLedgerScreen
  /\ \/ daily_closings = {}
     \/ daily_closings = {PreviousDayFinal(Some(1000))}
  /\ nextId = Cardinality(daily_closings) + 1
  /\ cash_withdrawals \in {<<>>, <<100>>}
  /\ session = [s \in Sessions |-> InitialSession]
  /\ loads = 0

DayCounts == {EmptyString, NumToString(0), NumToString(Day1.remaining),
              NumToString(30)}
DayCash == {EmptyString, NumToString(Day1.cashCounted), NumToString(1450),
            NumToString(699)}
DaySeeds == {NumToString(Day1.seed), NumToString(-1)}

\* The closing session of that day, its writes succeeding.
NextDay ==
  \/ Mount("A")
  \/ LoadData("A", TRUE)
  \/ \E v \in DayCounts : UpdateRemaining("A", Day1.product, v)
  \/ \E v \in DayCash : SetCashInDrawer("A", v)
  \/ \E v \in DaySeeds : HandleSaveFirstTimeOpening("A", v)
  \/ HandleSave("A", "ok")
  \/ HandleLock("A", AllOk(2))
  \/ HandleSaveNextDayOpening("A", NumToString(Day1.cashCounted), "ok")

SpecDay == InitDay /\ [][NextDay]_vars
----
\* Bound of the ledger: ids the transactions table hands out.
MaxTxnId == 4

\* fetchToday*: has_been_returned marks the rows that a fetched return row
\* refers to.
WithReturnedFlag(data) ==
  LET returnedIds == {data[i].return_of[1] :
                        i \in {j \in DOMAIN data :
                                 data[j].is_return /\ data[j].return_of # None}}
  IN [i \in DOMAIN data |->
        ("has_been_returned" :> (data[i].id \in returnedIds)) @@ data[i]]

\* The stored fields of a fetched row.
StoredRow(t) ==
  [ id |-> t.id, type |-> t.type, date_str |-> t.date_str,
    product_id |-> t.product_id, quantity |-> t.quantity,
    amount |-> t.amount, is_return |-> t.is_return,
    return_of |-> t.return_of ]

\* reversalTxn of returnTransaction, as stored under id.
ReversalRow(originalTxn, id) ==
  [ id |-> id, type |-> originalTxn.type, date_str |-> today,
    product_id |-> IF originalTxn.type = "STOCK_IN"
                   THEN originalTxn.product_id ELSE None,
    quantity |-> IF originalTxn.type = "STOCK_IN"
                 THEN -originalTxn.quantity ELSE 0,
    amount |-> IF originalTxn.type = "STOCK_IN"
               THEN 0 ELSE -originalTxn.amount,
    is_return |-> TRUE,
    return_of |-> Some(originalTxn.id) ]

\* Opening the StockIn screen, or CashFlow in a mode (loadAllData, loadData):
\* the history with its return rows.
LoadHistory(type) ==
  /\ history' = [screen |-> type,
                 rows |-> WithReturnedFlag(FetchTodayTransactions(type, TRUE))]
  /\ UNCHANGED <<today, amountScale, inflight, transactions, nextTxnId, sale_prices, store, session, loads>>

\* Leaving the ledger screen unmounts it.
LeaveLedgerScreen ==
  /\ history.screen # "NONE"
  /\ history' = NoLedgerScreen
  /\ UNCHANGED <<today, amountScale, inflight, transactions, nextTxnId, sale_prices, store, session, loads>>

\* StockIn.handleSubmit: addTransaction, then loadStockHistory.
HandleSubmitStockIn(p, quantity, outcome) ==
  /\ history.screen = "STOCK_IN"
  /\ nextTxnId <= MaxTxnId
  /\ UNCHANGED <<today, amountScale, inflight, sale_prices, store, session, loads>>
  /\ IF outcome = "ok"
     THEN /\ transactions' =
               Append(transactions, StockInRow(nextTxnId, today, p, quantity))
          /\ nextTxnId' = nextTxnId + 1
          /\ history' =
               [history EXCEPT !.rows =
                  WithReturnedFlag(FetchTodayTransactions("STOCK_IN", TRUE))']
     ELSE UNCHANGED <<transactions, nextTxnId, history>>

\* CashFlow.handleSubmit: addTransaction, then a refresh that leaves the
\* return rows out.
HandleSubmitCashFlow(mode, amount, outcome) ==
  /\ mode \in {"EXPENSE", "INCOME"}
  /\ history.screen = mode
  /\ nextTxnId <= MaxTxnId
  /\ UNCHANGED <<today, amountScale, inflight, sale_prices, store, session, loads>>
  /\ IF outcome = "ok"
     THEN /\ transactions' =
               Append(transactions, MoneyRow(nextTxnId, mode, today, amount))
          /\ nextTxnId' = nextTxnId + 1
          /\ history' =
               [history EXCEPT !.rows =
                  WithReturnedFlag(FetchTodayTransactions(mode, FALSE))']
     ELSE UNCHANGED <<transactions, nextTxnId, history>>

\* handleReturn on entry i of the history, whose return button is rendered
\* for an entry that is no return and is not marked returned:
\* returnTransaction, then a refresh with the return rows.
HandleReturn(i, outcome) ==
  /\ history.screen # "NONE"
  /\ i \in DOMAIN history.rows
  /\ ~history.rows[i].is_return
  /\ ~history.rows[i].has_been_returned
  /\ nextTxnId <= MaxTxnId
  /\ UNCHANGED <<today, amountScale, inflight, sale_prices, store, session, loads>>
  /\ IF outcome = "ok"
     THEN /\ transactions' =
               Append(transactions, ReversalRow(history.rows[i], nextTxnId))
          /\ nextTxnId' = nextTxnId + 1
          /\ \E mode \in TransactionTypes :
               /\ mode = history.screen
               /\ history' =
                    [history EXCEPT !.rows =
                       WithReturnedFlag(FetchTodayTransactions(mode, TRUE))']
     ELSE UNCHANGED <<transactions, nextTxnId, history>>

\* A day that starts without ledger entries.
InitLedger ==
  /\ InitStore({1}, <<>>)
  /\ session = [s \in Sessions |-> InitialSession]
  /\ loads = 0

\* One device: a ledger screen, or else the data deletion of Settings or
\* the closing screen.
NextLedger ==
  \/ \E type \in TransactionTypes : LoadHistory(type)
  \/ LeaveLedgerScreen
  \/ \E q \in 1..MaxStock, o \in WriteOutcomes : HandleSubmitStockIn(1, q, o)
  \/ \E mode \in {"EXPENSE", "INCOME"}, a \in Amounts, o \in WriteOutcomes :
       HandleSubmitCashFlow(mode, a, o)
  \/ \E i \in 1..MaxTxnId, o \in WriteOutcomes : HandleReturn(i, o)
  \/ \E type \in {"transactions", "stock_in", "expenses", "income"} :
       history.screen = "NONE" /\ DeleteDataByType(type, TRUE, TRUE, TRUE, TRUE)
  \/ history.screen = "NONE" /\ Mount("A")
  \/ history.screen = "NONE" /\ LoadData("A", TRUE)

SpecLedger == InitLedger /\ [][NextLedger]_vars
----
\* Amounts with a fractional part: the resolution of money, in units per
\* rupee.
Denominator == 2

\* A first day over one product in stock, priced at one rupee, with money
\* counted in 1/Denominator rupee.
InitFraction ==
  /\ today = 2
  /\ amountScale = Denominator
  /\ inflight = [s \in Sessions |-> NoRequest]
  /\ transactions = <<>>
  /\ nextTxnId = 1
  /\ history = NoLedgerScreen
  /\ sale_prices = [p \in {1} |-> 1 * amountScale]
  /\ products = [p \in {1} |-> MaxStock]
  /\ daily_closings = {}
  /\ nextId = 1
  /\ cash_withdrawals = <<>>
  /\ session = [s \in Sessions |-> InitialSession]
  /\ loads = 0

\* Cash counts and opening cash typed with a fractional part.
FractionCash == {NumToString(a) : a \in 0..(2 * Denominator)}
FractionSeeds == {NumToString(a) : a \in 0..1}

NextFraction ==
  \/ Mount("A")
  \/ LoadData("A", TRUE)
  \/ \E v \in TypedCounts : UpdateRemaining("A", 1, v)
  \/ \E v \in FractionCash : SetCashInDrawer("A", v)
  \/ \E v \in FractionSeeds : HandleSaveFirstTimeOpening("A", v)
  \/ HandleSave("A", "ok")
  \/ HandleLock("A", AllOk(2))

SpecFraction == InitFraction /\ [][NextFraction]_vars

----
\* Bound of the calendar: the last business date.
MaxDay == 3

\* The clock passes midnight: getTodayString() yields the next date from
\* now on.  Nothing of the store or of a mounted screen changes.
Midnight ==
  /\ today < MaxDay
  /\ today' = today + 1
  /\ UNCHANGED <<amountScale, inflight, transactions, ledgerScreens, sale_prices, store, session, loads>>

InitMidnight ==
  /\ InitStore({1}, <<>>)
  /\ daily_closings = {}
  /\ session = [s \in Sessions |-> InitialSession]
  /\ loads = 0

\* One closing screen, its writes succeeding, left open over midnight.
NextMidnight ==
  \/ Midnight
  \/ Mount("A")
  \/ LoadData("A", TRUE)
  \/ \E v \in TypedCounts : UpdateRemaining("A", 1, v)
  \/ \E v \in TypedCash : SetCashInDrawer("A", v)
  \/ \E v \in TypedAmounts : HandleSaveFirstTimeOpening("A", v)
  \/ HandleSave("A", "ok")
  \/ HandleLock("A", AllOk(2))

SpecMidnight == InitMidnight /\ [][NextMidnight]_vars

----
\* The handlers of the closing screen step by step: a handler runs up to
\* its first await within the click, and each awaited store write completes
\* in a later step.  The pending handler keeps the values of the render it
\* was started from (stockItems, calculations, cashInDrawer,
\* existingClosing) and the date it read.
saving(s) == inflight[s].save # None
locking(s) == inflight[s].lock # None

\* Click on Save Draft (disabled while !canSave || saving): handleSave up
\* to the await of its closing write.
HandleSaveStart(s) ==
  /\ ~session[s].loading
  /\ ~saving(s)
  /\ canSave(session[s]) /\ ~session[s].isLocked
  /\ inflight' = [inflight EXCEPT
                    ![s].save = Some([render |-> session[s], date |-> today])]
  /\ UNCHANGED <<today, amountScale, transactions, ledgerScreens, sale_prices, store, session, loads>>

\* The closing write of the pending handleSave completes, and the handler
\* runs to its end.
HandleSaveFinish(s, outcome) ==
  /\ saving(s)
  /\ LET ss == inflight[s].save[1].render
         data == ClosingData(ss, inflight[s].save[1].date, "partial",
                             SaveClosingStock(ss))
         insert == ss.existingClosing = None
     IN /\ insert => nextId <= MaxClosingId
        /\ daily_closings' = IF outcome = "ok"
                             THEN WriteClosing(ss, daily_closings, nextId, data)
                             ELSE daily_closings
        /\ nextId' = IF insert /\ outcome = "ok" THEN nextId + 1 ELSE nextId
        /\ session' =
             IF outcome # "ok" THEN session
             ELSE IF insert
             THEN [session EXCEPT
                     ![s].existingClosing =
                         Some(Snapshot(InsertedClosing(data, nextId))),
                     ![s].lastSaved = Some("time")]
             ELSE [session EXCEPT ![s].lastSaved = Some("time")]
  /\ inflight' = [inflight EXCEPT ![s].save = None]
  /\ UNCHANGED <<today, amountScale, transactions, ledgerScreens, sale_prices, products, cash_withdrawals, loads>>

\* Click on Lock & Close Day (disabled while !canLock || locking), the
\* confirmation accepted: handleLock up to the await of its first write.
HandleLockStart(s) ==
  /\ ~session[s].loading
  /\ ~locking(s)
  /\ canLock(session[s]) /\ ~session[s].isLocked
  /\ inflight' = [inflight EXCEPT
                    ![s].lock = Some([render |-> session[s], date |-> today,
                                      written |-> 0])]
  /\ UNCHANGED <<today, amountScale, transactions, ledgerScreens, sale_prices, store, session, loads>>

\* The next product update of the pending handleLock completes; its
\* result is not read, a rejection ends the handler.
HandleLockWriteProduct(s, outcome) ==
  /\ locking(s)
  /\ LET request == inflight[s].lock[1]
         closingStock == LockClosingStock(request.render)
         i == request.written + 1
     IN /\ i \in DOMAIN closingStock
        /\ closingStock[i].newOpeningStock
             <= StockCeiling(closingStock[i].productId)
        /\ products' = IF outcome = "ok"
                       THEN [products EXCEPT
                               ![closingStock[i].productId] =
                                   closingStock[i].newOpeningStock]
                       ELSE products
        /\ inflight' = IF outcome = "throw"
                       THEN [inflight EXCEPT ![s].lock = None]
                       ELSE [inflight EXCEPT ![s].lock[1].written = i]
  /\ UNCHANGED <<today, amountScale, transactions, ledgerScreens, sale_prices, daily_closings, nextId, cash_withdrawals, session, loads>>

\* The closing write of the pending handleLock completes, and the handler
\* runs to its end.
HandleLockWriteClosing(s, outcome) ==
  /\ locking(s)
  /\ LET request == inflight[s].lock[1]
         ss == request.render
         closingStock == LockClosingStock(ss)
         data == ClosingData(ss, request.date, "final", closingStock)
         insert == ss.existingClosing = None
     IN /\ request.written = Len(closingStock)
        /\ insert => nextId <= MaxClosingId
        /\ daily_closings' = IF outcome = "ok"
                             THEN WriteClosing(ss, daily_closings, nextId, data)
                             ELSE daily_closings
        /\ nextId' = IF insert /\ outcome = "ok" THEN nextId + 1 ELSE nextId
        /\ session' =
             IF outcome = "throw" THEN session
             ELSE IF insert
             THEN [session EXCEPT
                     ![s].existingClosing =
                         IF outcome = "ok"
                         THEN Some(Snapshot(InsertedClosing(data, nextId)))
                         ELSE None,
                     ![s].isLocked = TRUE,
                     ![s].lastSaved = Some("time")]
             ELSE [session EXCEPT ![s].isLocked = TRUE,
                                  ![s].lastSaved = Some("time")]
  /\ inflight' = [inflight EXCEPT ![s].lock = None]
  /\ UNCHANGED <<today, amountScale, transactions, ledgerScreens, sale_prices, products, cash_withdrawals, loads>>

InitOverlap ==
  /\ InitStore({1}, OneStockIn)
  /\ session = [s \in Sessions |-> InitialSession]
  /\ loads = 0

\* One closing screen from its load on, its handlers interleaving at their
\* awaits.
NextOverlap ==
  \/ LoadData("A", TRUE)
  \/ \E v \in TypedCounts : UpdateRemaining("A", 1, v)
  \/ \E v \in TypedCash : SetCashInDrawer("A", v)
  \/ \E v \in TypedAmounts : HandleSaveFirstTimeOpening("A", v)
  \/ HandleSaveStart("A")
  \/ \E o \in WriteOutcomes : HandleSaveFinish("A", o)
  \/ HandleLockStart("A")
  \/ \E o \in WriteOutcomes : HandleLockWriteProduct("A", o)
  \/ \E o \in WriteOutcomes : HandleLockWriteClosing("A", o)

SpecOverlap == InitOverlap /\ [][NextOverlap]_vars

----
FinalClosings(date) ==
  {c \in daily_closings : c.date_str = date /\ c.closing_type = "final"}

Dates == {c.date_str : c \in daily_closings} \cup {today}

\* C1: in every reachable state of the record store, at most one closing
\* record of a date has closing_type = final.
C1_AtMostOneFinalPerDate ==
  \A d \in Dates : Cardinality(FinalClosings(d)) <= 1

\* A save or lock step of some session.
SaveOrLockStep ==
  \/ \E s \in Sessions, o \in WriteOutcomes : HandleSave(s, o)
  \/ \E s \in Sessions, o \in LockOutcomes : HandleLock(s, o)

\* C2: once a final record exists for a date, no later saveDraft or lock
\* adds a record for that date or changes the final record's closing_type,
\* total_revenue, cash_received, total_withdrawals or report_json.
C2_FinalRecordImmutable ==
  [][ SaveOrLockStep =>
        \A f \in FinalClosings(today) :
          /\ {c.id : c \in daily_closings' } = {c.id : c \in daily_closings}
          /\ \E g \in daily_closings' :
               /\ g.id = f.id
               /\ g.closing_type = f.closing_type
               /\ g.total_revenue = f.total_revenue
               /\ g.cash_received = f.cash_received
               /\ g.total_withdrawals = f.total_withdrawals
               /\ g.report_json = f.report_json ]_vars

\* C3: a lock attempt made while the store already holds a final record of
\* the date writes nothing: no product stock, no closing record.
C3_LockGuardedByFinalRead ==
  [][ \A s \in Sessions, o \in LockOutcomes :
        HandleLock(s, o) /\ FinalClosings(today) # {}
          => UNCHANGED <<products, daily_closings>> ]_vars

\* C4: if a store write of lock() fails, the session does not become LOCKED
\* and its in-memory state is the one before lock() was called.
C4_FailedLockRollsBack ==
  [][ \A o \in LockOutcomes :
        HandleLock("A", o) /\ (\E i \in DOMAIN o : o[i] # "ok")
          => session'["A"] = session["A"] ]_vars

C6_LockNeedsOpeningCash ==
  [][ \A o \in LockOutcomes :
        HandleLock("A", o) /\ daily_closings' # daily_closings
          => /\ session["A"].openingCashLocked
             /\ session["A"].cashInDrawer # EmptyString ]_vars

\* C7: after a lock() that reports success, every product's
\* current_opening_stock equals the remaining count entered for it.
C7_StockEqualsRemainingAfterLock ==
  [][ \A o \in LockOutcomes :
        HandleLock("A", o) /\ session'["A"].isLocked
          => \A p \in DOMAIN session["A"].stockItems :
               products'[p] =
                 ParseOrZero(session["A"].stockItems[p].remaining) ]_vars

LockStep == \E o \in LockOutcomes : HandleLock("A", o)

SettingsStockStep ==
  \/ \E adj \in [DOMAIN products -> TypedCounts], w \in SUBSET DOMAIN products :
       HandleSaveStockAdjustments(adj, w)
  \/ ResetProductStock(TRUE)
  \/ \E x, c, w \in BOOLEAN : DeleteDataByType("all", x, c, w, TRUE)

C9_SaveLeavesStock ==
  [][ (\E o \in WriteOutcomes : HandleSave("A", o))
        => UNCHANGED <<products, cash_withdrawals>> ]_vars

C9_Witness ==
  /\ session["A"].lastSaved # None /\ ~session["A"].isLocked
  /\ \E c \in TodayClosings :
       /\ c.closing_type = "partial"
       /\ session["A"].existingClosing # None
       /\ session["A"].existingClosing[1].id = c.id
       /\ \E i \in DOMAIN c.report_json[1].closingStock :
            LET e == c.report_json[1].closingStock[i]
            IN products[e.productId] # e.newOpeningStock

\* C10: a successful saveDraft() leaves the day's newest record a partial one
\* holding the revenue, cash count, withdrawals and stock snapshot of this
\* call, and a second call with unchanged inputs would leave the store as
\* it is.
C10_SaveIdempotentOverwrites ==
  [][ HandleSave("A", "ok") =>
        LET ss == session["A"]
            data == ClosingData(ss, today, "partial", SaveClosingStock(ss))
            after == session'["A"]
            again == ClosingData(after, today', "partial",
                                 SaveClosingStock(after))
            latest == LatestOf(daily_closings', today')
        IN /\ latest # None
           /\ latest[1].closing_type = "partial"
           /\ latest[1].total_revenue = data.total_revenue
           /\ latest[1].cash_received = data.cash_received
           /\ latest[1].total_withdrawals = data.total_withdrawals
           /\ latest[1].report_json = data.report_json
           /\ WriteClosing(after, daily_closings', nextId', again)
                = daily_closings' ]_vars

C10_Witness ==
  LET ss == session["A"]
  IN /\ ss.existingClosing # None /\ ~ss.isLocked /\ ss.lastSaved # None
     /\ LatestClosing # None
     /\ LatestClosing[1].id = ss.existingClosing[1].id
     /\ LatestClosing[1].closing_type = "partial"
     /\ LatestClosing[1].cash_received # ss.existingClosing[1].cash_received
     /\ LatestClosing[1].cash_received = ParseOrZero(ss.cashInDrawer)

----
\* The closing state machine read off a session's state: UNSET while no
\* opening cash is loaded or seeded, DRAFT once it is, LOCKED after a lock.
Unset(ss) == ~ss.loading /\ ~ss.isLocked /\ ~ss.openingCashLocked
Draft(ss) == ~ss.loading /\ ~ss.isLocked /\ ss.openingCashLocked
Locked(ss) == ~ss.loading /\ ss.isLocked

ClosingIds(rows) == {c.id : c \in rows}

\* C11: within one mounted session, saves followed by a lock leave one
\* closing record for the date: a step that adds a closing record adds one,
\* is taken by a session that knows none, and the session knows it
\* afterwards; a lock of a session that knows a record writes that record
\* only and converts it to final.
C11_OneRecordPerSession ==
  [][ /\ loads' <= 1 => Cardinality(TodayClosings') <= 1
      /\ ClosingIds(daily_closings') # ClosingIds(daily_closings)
           \/ (daily_closings' # daily_closings
               /\ ~session["A"].isLocked /\ session'["A"].isLocked)
           => LET known == session["A"].existingClosing
                  after == session'["A"].existingClosing
              IN IF known = None
                 THEN /\ after # None
                      /\ after[1].id \notin ClosingIds(daily_closings)
                      /\ ClosingIds(daily_closings')
                           = ClosingIds(daily_closings) \cup {after[1].id}
                      /\ Cardinality(daily_closings')
                           = Cardinality(daily_closings) + 1
                 ELSE /\ after = known
                      /\ ClosingIds(daily_closings') = ClosingIds(daily_closings)
                      /\ Cardinality(daily_closings')
                           = Cardinality(daily_closings)
                      /\ \A c \in daily_closings' :
                           c.id = known[1].id => c.closing_type = "final"
    ]_vars

C11_Witness ==
  LET ss == session["A"]
  IN /\ loads = 1 /\ Locked(ss) /\ ss.existingClosing # None
     /\ \E c \in TodayClosings :
          /\ TodayClosings = {c}
          /\ c.closing_type = "final"
          /\ c.id = ss.existingClosing[1].id
          /\ c.cash_received # ss.existingClosing[1].cash_received

\* C12: saveDraft() writes a closing record only in DRAFT: a step that
\* writes a partial record is taken by a session whose opening cash is
\* loaded or seeded and which is not locked.
C12_SaveOnlyInDraft ==
  [][ \A o \in WriteOutcomes :
        HandleSave("A", o) /\ daily_closings' # daily_closings
          => Draft(session["A"]) ]_vars

\* C13: a saveDraft() whose store write fails leaves the store and the
\* session (inputs, known record, last-saved marker) as they were, still in
\* an unlocked state in which saveDraft() can be called again.
C13_FailedSaveChangesNothing ==
  [][ \A o \in WriteOutcomes \ {"ok"} :
        HandleSave("A", o)
          => /\ session' = session
             /\ UNCHANGED <<daily_closings, nextId, products>>
             /\ ~session'["A"].isLocked /\ canSave(session'["A"]) ]_vars

C13_Witness ==
  LET ss == session["A"]
  IN /\ ~ss.loading /\ ~ss.isLocked /\ canSave(ss)
     /\ ss.existingClosing = None /\ ss.lastSaved = None
     /\ TodayClosings = {}
     /\ ENABLED HandleSave("A", "error")
     /\ ENABLED HandleSave("A", "ok")

\* C14: seedOpeningCash(amount) can be called only in UNSET; an amount >= 0
\* becomes the opening cash and the session moves to DRAFT with nothing else
\* changed; a negative or non-numeric amount leaves the state unchanged.
C14_SeedOnlyInUnset ==
  [][ /\ (ENABLED (\E v \in TypedAmounts : HandleSaveFirstTimeOpening("A", v)))
           => Unset(session["A"])
      /\ \A v \in TypedAmounts :
           HandleSaveFirstTimeOpening("A", v)
             => /\ Unset(session["A"])
                /\ UNCHANGED <<store, transactions, loads>>
                /\ IF v # EmptyString /\ v[1] >= 0
                   THEN /\ Draft(session'["A"])
                        /\ session'["A"] =
                             [session["A"] EXCEPT !.openingCash = v[1],
                                                  !.openingCashLocked = TRUE,
                                                  !.isFirstTimeUser = FALSE]
                   ELSE session' = session ]_vars

C14_Witness ==
  LET ss == session["A"]
  IN /\ Draft(ss) /\ ss.openingCash = 0 /\ ~ss.isFirstTimeUser
     /\ PreviousDayClosing = None
     /\ loads = 1
     /\ ss.existingClosing = None

\* C15: once the day's opening cash has been seeded it keeps its value
\* for the rest of the day: when the seeded session is reloaded, the load
\* that follows does not return it to UNSET and gives it the seeded opening
\* cash again.
C15_SeededOpeningCashKept ==
  [][ /\ Draft(session["A"]) /\ PreviousDayClosing = None
      /\ session'["A"].loading
      => /\ LoadedSession(TRUE)'.openingCashLocked
         /\ LoadedSession(TRUE)'.openingCash = session["A"].openingCash ]_vars

\* C16: setNextDayOpeningCash writes next_day_opening_cash only to a
\* record whose closing_type is final, only an amount >= 0, and only while
\* the session is LOCKED.
C16_HandoffOnlyOnFinal ==
  [][ \A c \in daily_closings, d \in daily_closings' :
        c.id = d.id /\ d.next_day_opening_cash # c.next_day_opening_cash
          => /\ d.closing_type = "final"
             /\ d.next_day_opening_cash # None
             /\ d.next_day_opening_cash[1] >= 0
             /\ Locked(session["A"]) ]_vars

\* The input of the next-day opening panel is on screen.
HandoffInputShown(ss) == Locked(ss) /\ ~ss.nextDayOpeningSaved

\* C17: once next_day_opening_cash is non-null on a record it never
\* changes again, and a session whose record has it set, whether it set the
\* value itself or loaded it, offers no second setNextDayOpeningCash.
C17_HandoffSetOnce ==
  [][ /\ \A c \in daily_closings, d \in daily_closings' :
           c.id = d.id /\ c.next_day_opening_cash # None
             => d.next_day_opening_cash = c.next_day_opening_cash
      /\ \A c \in daily_closings' :
           /\ session'["A"].existingClosing # None
           /\ session'["A"].existingClosing[1].id = c.id
           /\ c.next_day_opening_cash # None
           => ~HandoffInputShown(session'["A"]) ]_vars

C17_Witness ==
  LET ss == session["A"]
  IN /\ loads = 2 /\ Locked(ss) /\ ss.nextDayOpeningSaved
     /\ ss.existingClosing # None
     /\ \E c \in TodayClosings :
          /\ c.id = ss.existingClosing[1].id
          /\ c.closing_type = "final"
          /\ c.next_day_opening_cash = Some(1)

\* C18: when the closing screen loads, the opening cash is the
\* next_day_opening_cash of the most recent final record of an earlier date
\* and the session has its opening cash (DRAFT, or LOCKED when today's record
\* is final); when there is no such record or it carries no value, the
\* session has no opening cash (UNSET).
C18_OpeningCashFromHandoff ==
  [][ (\E ok \in BOOLEAN : LoadData("A", ok))
        => LET prev == PreviousDayClosing
               ss == session'["A"]
           IN IF prev # None /\ prev[1].next_day_opening_cash # None
              THEN /\ Draft(ss) \/ Locked(ss)
                   /\ ss.openingCashLocked
                   /\ ss.openingCash = prev[1].next_day_opening_cash[1]
              ELSE /\ Unset(ss) \/ Locked(ss)
                   /\ ~ss.openingCashLocked ]_vars

\* The entries of the day-1 scenario: opening cash 500, product A with
\* opening stock 20 and 5 received, 5 counted as remaining, 700 counted in
\* the drawer, no income, expense or withdrawal.
Day1Entered(ss) ==
  /\ ~ss.loading
  /\ ss.openingCashLocked /\ ss.openingCash = Day1.seed
  /\ ss.stockItems[Day1.product].opening = Day1.opening
  /\ ss.stockItems[Day1.product].stockIn = Day1.received
  /\ ss.stockItems[Day1.product].remaining = NumToString(Day1.remaining)
  /\ ss.cashInDrawer = NumToString(Day1.cashCounted)
  /\ ss.todayIncome = 0 /\ ss.todayExpenses = 0 /\ ss.withdrawals = <<>>

\* C19: the day-1 scenario.  With no earlier final record the loaded
\* session is UNSET; seeding 500 makes it DRAFT with opening cash 500;
\* product A (price 10, opening 20, 5 received) is available 25 and, with 5
\* remaining and 700 counted, sold is 20, revenue 200, expected cash 700 and
\* the cash matches; lock is possible and sets A's opening stock to 5 and
\* writes the day's final record; the next-day opening cash can then be set
\* and is stored as 700.
C19_DayOneScenario ==
  [][ LET ss == session["A"]
          after == session'["A"]
      IN /\ ss.loading /\ ~after.loading /\ daily_closings = {}
              => Unset(after)
         /\ ss.loading /\ ~after.loading /\ TodayClosings = {}
            /\ products[Day1.product] = Day1.opening
              => after.stockItems[Day1.product].available = Day1.available
         /\ Unset(ss) /\ Draft(after)
              => after.openingCash = Day1.seed
         /\ Day1Entered(ss)
              => /\ ss.stockItems[Day1.product].available = Day1.available
                 /\ ss.stockItems[Day1.product].sold = 20
                 /\ calculations(ss).sales = 200
                 /\ calculations(ss).expectedCash = 700
                 /\ calculations(ss).difference = 0
                 /\ calculations(ss).isMatch
         /\ Day1Entered(ss) /\ Draft(ss)
              => ENABLED HandleLock("A", AllOk(2))
         /\ Day1Entered(ss) /\ Draft(ss) /\ Locked(after)
              => /\ products'[Day1.product] = Day1.remaining
                 /\ \E c \in TodayClosings' :
                      /\ TodayClosings' = {c}
                      /\ c.closing_type = "final"
                      /\ c.total_revenue = 200
                      /\ c.cash_received = Day1.cashCounted
         /\ Day1Entered(ss) /\ Locked(ss) /\ ~ss.nextDayOpeningSaved
              => ENABLED HandleSaveNextDayOpening("A", NumToString(Day1.cashCounted), "ok")
         /\ Day1Entered(ss) /\ Locked(ss)
            /\ ~ss.nextDayOpeningSaved /\ after.nextDayOpeningSaved
              => \E c \in TodayClosings' :
                   /\ TodayClosings' = {c}
                   /\ c.closing_type = "final"
                   /\ c.next_day_opening_cash = Some(Day1.cashCounted) ]_vars

C19_Witness ==
  LET ss == session["A"]
  IN /\ PreviousDayClosing = None
     /\ loads = 1
     /\ Day1Entered(ss) /\ Locked(ss) /\ ss.nextDayOpeningSaved
     /\ products[Day1.product] = Day1.remaining
     /\ \E c \in TodayClosings :
          /\ TodayClosings = {c}
          /\ c.closing_type = "final"
          /\ c.total_revenue = 200
          /\ c.cash_received = Day1.cashCounted
          /\ c.next_day_opening_cash = Some(Day1.cashCounted)

\* C20: in every state of the closing screen, expectedCash is opening
\* cash + revenue + income - expenses - withdrawals and difference is the
\* counted cash - expectedCash; with opening cash 1000, revenue 500, income
\* 200, expenses 150 and withdrawals 100, expectedCash is 1450.
C20_ExpectedCashFormula ==
  LET ss == session["A"]
      c == calculations(ss)
      totalRevenue == salesFromStock(ss)
  IN /\ c.expectedCash = ss.openingCash + totalRevenue + ss.todayIncome
                           - ss.todayExpenses - totalWithdrawals(ss)
     /\ c.difference = ParseOrZero(ss.cashInDrawer) - c.expectedCash
     /\ ss.openingCash = 1000 /\ totalRevenue = 500 /\ ss.todayIncome = 200
        /\ ss.todayExpenses = 150 /\ totalWithdrawals(ss) = 100
          => c.expectedCash = 1450

C20_Witness ==
  LET ss == session["A"]
  IN /\ Draft(ss)
     /\ ss.openingCash = 1000 /\ salesFromStock(ss) = 500
     /\ ss.todayIncome = 200 /\ ss.todayExpenses = 150
     /\ totalWithdrawals(ss) = 100
     /\ ss.cashInDrawer = NumToString(1450)
     /\ calculations(ss).expectedCash = 1450
     /\ calculations(ss).difference = 0

\* The match / loss / extra badge beside the counted cash.
Classification(ss) ==
  IF calculations(ss).isMatch THEN "MATCH"
  ELSE IF calculations(ss).hasLoss THEN "SHORTAGE"
  ELSE "SURPLUS"

\* C21: the counted cash is classified MATCH whenever it differs from
\* expectedCash by at most 1, the differences +1 and -1 included; SHORTAGE
\* only below -1 and SURPLUS only above +1.
C21_ToleranceOfOne ==
  LET ss == session["A"]
      difference == calculations(ss).difference
  IN ~ss.loading /\ ss.cashInDrawer # EmptyString
       => /\ (difference >= -1 /\ difference <= 1)
               => Classification(ss) = "MATCH"
          /\ Classification(ss) = "SHORTAGE" => difference < -1
          /\ Classification(ss) = "SURPLUS" => difference > 1

\* The last row of the table after a step that appended a return row.
ReturnAppended ==
  /\ Len(transactions') = Len(transactions) + 1
  /\ SubSeq(transactions', 1, Len(transactions)) = transactions
  /\ transactions'[Len(transactions')].is_return

\* C22: reversing a stock-in of quantity q takes q off the received
\* quantity the closing table computes for the product, so that the entry and
\* its reversal net to 0.
C22_StockInReversalNetsToZero ==
  [][ ReturnAppended /\ transactions'[Len(transactions')].type = "STOCK_IN"
        => \A p \in DOMAIN products :
             LET reversal == transactions'[Len(transactions')]
             IN reversal.product_id = Some(p)
                  => StockInToday(p)' = StockInToday(p) + reversal.quantity ]_vars

\* C23: reversing an expense or income of amount a takes a off the
\* totalExpenses or totalIncome the closing calculator uses, so that the
\* total is what it was before the entry was recorded.
C23_MoneyReversalNetsToZero ==
  [][ ReturnAppended
        => \A type \in {"EXPENSE", "INCOME"} :
             LET reversal == transactions'[Len(transactions')]
             IN reversal.type = type
                  => TotalAmount(type)' = TotalAmount(type) + reversal.amount ]_vars

\* The return rows of the table that refer to the entry with this id.
ReversalsOf(id) ==
  {i \in DOMAIN transactions :
     transactions[i].is_return /\ transactions[i].return_of = Some(id)}

\* C24: no entry is referred to (return_of) by more than one return row,
\* and no return row is itself referred to by a return row.
C24_AtMostOneReversal ==
  \A i \in DOMAIN transactions :
    /\ Cardinality(ReversalsOf(transactions[i].id)) <= 1
    /\ transactions[i].is_return => ReversalsOf(transactions[i].id) = {}

\* C25: movement records are append-only.  No step removes or changes a
\* row of the table, and a step that appends a return row appends exactly
\* that row, marked is_return, referring to an original of the table and
\* carrying its negated quantity and amount.
C25_AppendOnly ==
  [][ /\ Len(transactions') >= Len(transactions)
      /\ SubSeq(transactions', 1, Len(transactions)) = transactions
      /\ ReturnAppended
           => \E i \in DOMAIN transactions :
                LET original == transactions[i]
                    reversal == transactions'[Len(transactions')]
                IN /\ reversal.return_of = Some(original.id)
                   /\ reversal.type = original.type
                   /\ reversal.quantity = -original.quantity
                   /\ reversal.amount = -original.amount ]_vars

\* C26: in every state of the stock table, a product with a remaining
\* entry has 0 <= remaining <= available and sold = available - remaining,
\* so sold is not negative.
C26_RemainingWithinAvailable ==
  \A s \in Sessions :
    LET items == session[s].stockItems
    IN \A p \in DOMAIN items :
         items[p].remaining # EmptyString
           => /\ 0 <= ParseOrZero(items[p].remaining)
              /\ ParseOrZero(items[p].remaining) <= items[p].available
              /\ items[p].sold = items[p].available - ParseOrZero(items[p].remaining)
              /\ items[p].sold >= 0

\* C27: setRemaining with a value below 0 is rejected, the product's
\* remaining entry and sold quantity keeping their values; a value above
\* available is stored as available, with sold = 0.
C27_NegativeRemainingRejected ==
  [][ \A p \in Products, v \in TypedRemaining \ {EmptyString} :
        UpdateRemaining("A", p, v)
          => LET item == session["A"].stockItems[p]
                 after == session'["A"].stockItems[p]
             IN /\ v[1] < 0 => after = item
                /\ v[1] > item.available
                     => /\ after.remaining = NumToString(item.available)
                        /\ after.sold = 0 ]_vars

\* C28: a lock never reports success while some product's opening stock
\* was not updated: when a lock step shows the day as locked, every product
\* of the closing stock holds its new opening stock.
C28_LockReportsStockFailure ==
  [][ LET ss == session["A"]
          after == session'["A"]
      IN ~ss.loading /\ ~ss.isLocked /\ ~after.loading /\ after.isLocked
           => \A i \in DOMAIN LockClosingStock(ss) :
                products'[LockClosingStock(ss)[i].productId]
                  = LockClosingStock(ss)[i].newOpeningStock ]_vars

\* What a failed load leaves behind: the screen is shown without a stock
\* table although the catalogue has products.
LoadFailed(ss) == ~ss.loading /\ ss.stockItems = <<>> /\ DOMAIN products # {}

\* C29: after a load in which a read failed, the session writes neither a
\* closing record nor product stock.
C29_NoWriteAfterFailedLoad ==
  [][ LoadFailed(session["A"])
        => /\ daily_closings' = daily_closings
           /\ products' = products ]_vars

\* The locked view: the summary computed from existingClosing.
LockedSummary(ss) ==
  LET savedSales == IF ss.existingClosing = None THEN 0
                    ELSE ss.existingClosing[1].total_revenue
      savedCashReceived == IF ss.existingClosing = None THEN 0
                           ELSE ss.existingClosing[1].cash_received
      savedWithdrawals == IF ss.existingClosing = None THEN 0
                          ELSE ss.existingClosing[1].total_withdrawals
      savedExpectedCash == ss.openingCash + savedSales + ss.todayIncome
                           - ss.todayExpenses - savedWithdrawals
  IN [ savedSales        |-> savedSales,
       savedCashReceived |-> savedCashReceived,
       savedWithdrawals  |-> savedWithdrawals,
       savedExpectedCash |-> savedExpectedCash,
       savedDifference   |-> savedCashReceived - savedExpectedCash ]

\* C30: the locked summary shows the live values of the moment of lock.
\* Right after the lock its revenue, counted cash, withdrawals, expected cash
\* and difference are those of the live calculator before the step, and a
\* reload reads the same revenue, counted cash and withdrawals.
C30_LockedSummaryIsLive ==
  [][ LET ss == session["A"]
          after == session'["A"]
          live == calculations(ss)
      IN ~ss.loading /\ ~ss.isLocked /\ ~after.loading /\ after.isLocked
           => /\ LockedSummary(after).savedSales = live.sales
              /\ LockedSummary(after).savedCashReceived = live.actualCash
              /\ LockedSummary(after).savedWithdrawals = totalWithdrawals(ss)
              /\ LockedSummary(after).savedExpectedCash = live.expectedCash
              /\ LockedSummary(after).savedDifference = live.difference
              /\ LockedSummary(LoadedSession(TRUE)').savedSales = live.sales
              /\ LockedSummary(LoadedSession(TRUE)').savedCashReceived
                   = live.actualCash
              /\ LockedSummary(LoadedSession(TRUE)').savedWithdrawals
                   = totalWithdrawals(ss) ]_vars

\* C32: a reload after the lock shows for every product the sold quantity
\* and the revenue of the moment of lock.
C32_LockedStockFiguresKept ==
  [][ LET ss == session["A"]
          after == session'["A"]
      IN ~ss.loading /\ ~ss.isLocked /\ ~after.loading /\ after.isLocked
         /\ TodayClosings' # {}
           => \A p \in DOMAIN ss.stockItems :
                /\ LoadedSession(TRUE)'.stockItems[p].sold
                     = ss.stockItems[p].sold
                /\ LoadedSession(TRUE)'.stockItems[p].sold * sale_price(p)
                     = ss.stockItems[p].sold * sale_price(p) ]_vars

\* C33: the record written by a lock whose closing write succeeded is
\* final, carries the revenue of all products, the entered cash and the sum
\* of the date's withdrawal records, and its closingStock snapshot has
\* exactly one entry per product with newOpeningStock = remaining.
C33_FinalRecordContents ==
  [][ LET ss == session["A"]
          after == session'["A"]
          items == ss.stockItems
      IN ~ss.isLocked /\ after.isLocked /\ daily_closings' # daily_closings
           => \A c \in daily_closings' \ daily_closings :
                /\ c.closing_type = "final"
                /\ DOMAIN items = DOMAIN products
                /\ c.total_revenue
                     = Reduce([p \in DOMAIN items |->
                         (items[p].available
                            - ParseOrZero(items[p].remaining)) * sale_price(p)])
                /\ c.cash_received = ParseOrZero(ss.cashInDrawer)
                /\ c.total_withdrawals = Reduce(cash_withdrawals)
                /\ c.report_json # None
                /\ LET closingStock == c.report_json[1].closingStock
                   IN \A p \in DOMAIN products :
                        /\ Cardinality({i \in DOMAIN closingStock :
                             closingStock[i].productId = p}) = 1
                        /\ \A i \in DOMAIN closingStock :
                             closingStock[i].productId = p
                               => closingStock[i].newOpeningStock
                                    = ParseOrZero(items[p].remaining) ]_vars

C35_ReturnedFlagMatchesStore ==
  \A type \in TransactionTypes, includeReturns \in BOOLEAN :
    LET rows == WithReturnedFlag(FetchTodayTransactions(type, includeReturns))
    IN \A i \in DOMAIN rows :
         rows[i].has_been_returned
           <=> \E j \in DOMAIN transactions :
                 /\ transactions[j].is_return
                 /\ transactions[j].date_str = rows[i].date_str
                 /\ transactions[j].return_of = Some(rows[i].id)

\* C36: a reload after a draft save shows for every product the remaining
\* entry it had before the save; a product without an entry is still
\* without one, so a lock gate that was closed stays closed.
C36_DraftRoundTrip ==
  [][ LET ss == session["A"]
          after == session'["A"]
      IN ~ss.isLocked /\ ~after.isLocked /\ daily_closings' # daily_closings
           => /\ \A p \in DOMAIN ss.stockItems :
                   LoadedSession(TRUE)'.stockItems[p].remaining
                     = ss.stockItems[p].remaining
              /\ ~canLock(ss) => ~canLock(LoadedSession(TRUE)') ]_vars

\* C37: a successful load leaves the session LOCKED exactly when the store
\* holds a final closing record for today, whatever the number and the
\* creation order of today's records.
C37_LockedIffFinalExists ==
  LoadedSession(TRUE).isLocked
    <=> \E c \in TodayClosings : c.closing_type = "final"

\* C40: whenever a lock has rolled a product's opening stock forward to
\* the counted remaining, the store holds a final closing record for today.
C40_RolloverImpliesFinal ==
  [][ products' # products => FinalClosings(today)' # {} ]_vars

\* The badge of the locked view beside the saved difference.
LockedClassification(ss) ==
  LET savedDifference == LockedSummary(ss).savedDifference
      hasLoss == savedDifference < 0
      hasExtra == savedDifference > 0
  IN IF hasLoss THEN "SHORTAGE" ELSE IF hasExtra THEN "SURPLUS" ELSE "MATCH"

\* C31: for the same expectedCash and cash counted, the locked day shows
\* the classification (match, loss, extra) the live calculator showed in
\* the draft, differences strictly between -1 and +1 included.
C31_LockedClassificationIsLive ==
  [][ LET ss == session["A"]
          after == session'["A"]
      IN (/\ ~ss.loading /\ ~ss.isLocked /\ ~after.loading /\ after.isLocked
          /\ LockedSummary(after).savedExpectedCash
               = calculations(ss).expectedCash
          /\ LockedSummary(after).savedCashReceived
               = calculations(ss).actualCash)
           => LockedClassification(after) = Classification(ss) ]_vars

\* C38: the date_str of a closing record never changes after its creation,
\* also when the business date advances between the load and a later save
\* or lock of the same session.
C38_DateNeverChanges ==
  [][ \A c \in daily_closings, d \in daily_closings' :
        d.id = c.id => d.date_str = c.date_str ]_vars

\* C39: two overlapping invocations of saveDraft() and/or lock() in one
\* session, the second started before the store write of the first
\* completed, leave at most one closing record for the date, and no product
\* stock is rolled forward once the session is locked.
C39_OverlapWritesOnce ==
  [][ /\ Cardinality(TodayClosings') <= 1
      /\ products' # products => ~session["A"].isLocked ]_vars
====
